---- MODULE Spec2Model ----
(***************************************************************************)
(* Low-thrust mission design: the propagation controller (propagateMission *)
(* over the RK4 / Euler integrators, the acceleration model and the        *)
(* orbital-element extractor) and the Kepler solver.                       *)
(*                                                                         *)
(* Arithmetic.  The program computes in IEEE doubles; the model computes   *)
(* in decimal fixed point with three fractional digits: a real x is held   *)
(* as the integer nearest to x * Scale, products and quotients are rounded *)
(* to nearest.  The thresholds 1e-10 and 1e-15 lie below the grid's        *)
(* resolution, so on the grid "x > 1e-10" is "x > 0" and "x < 1e-10" is    *)
(* "x <= 0".  Units: length and time are chosen so that the Sun's          *)
(* gravitational parameter and the catalogue radii fit 32-bit integers     *)
(* (Earth's radius is 14.4 length units and its circular speed 1 length    *)
(* unit per time unit); mass is in kg, thrust in mN, Isp in time units.    *)
(***************************************************************************)
EXTENDS Integers, Sequences, FiniteSets, TLC

Scale == 10 ^ 3

Abs(x) == IF x < 0 THEN -x ELSE x

Sign(x) == IF x < 0 THEN -1 ELSE 1

\* a / b rounded to the nearest integer (ties away from zero), b # 0.
Rnd(a, b) == Sign(a) * Sign(b) * ((Abs(a) + (Abs(b) \div 2)) \div Abs(b))

\* The fixed-point value of the integer n.
Fix(n) == n * Scale

\* Fixed-point product a * b: (a * b) / Scale rounded, computed in two parts
\* so that the intermediate products stay within 32 bits.
Mul(a, b) ==
    LET hi == Abs(b) \div Scale
        lo == Abs(b) % Scale
    IN  Sign(a) * Sign(b) * (Abs(a) * hi + Rnd(Abs(a) * lo, Scale))

\* Fixed-point quotient a / b, b # 0.
Div(a, b) == Rnd(a * Scale, b)

\* std::sqrt on integers: the largest k with k * k <= n, by bisection.
RECURSIVE SqrtBetween(_, _, _)
SqrtBetween(n, lo, hi) ==
    IF lo >= hi THEN lo
    ELSE LET mid == (lo + hi + 1) \div 2
         IN  IF mid * mid <= n THEN SqrtBetween(n, mid, hi)
                               ELSE SqrtBetween(n, lo, mid - 1)

ISqrt(n) == SqrtBetween(n, 0, 46340)

\* std::sqrt of a fixed-point value.
Sqrt(x) == ISqrt(x * Scale)

\* sqrt(u[0]*u[0] + u[1]*u[1] + u[2]*u[2]) of a fixed-point 3-vector.
Mag(u) == ISqrt(u[1] * u[1] + u[2] * u[2] + u[3] * u[3])

(***************************************************************************)
(* constants.h                                                             *)
(***************************************************************************)
MU_SUN == 14400

G0 == 10

R_MERCURY == 5574
R_VENUS == 10000
R_EARTH == 14400
R_MARS == 22500
R_JUPITER == 74929
R_SATURN == 137334
R_URANUS == 276350
R_NEPTUNE == 432720
R_PLUTO == 568530

Bodies == {"MERCURY", "VENUS", "EARTH", "MARS", "JUPITER", "SATURN",
           "URANUS", "NEPTUNE", "PLUTO"}

getOrbitalRadius(body) ==
    CASE body = "MERCURY" -> R_MERCURY
      [] body = "VENUS"   -> R_VENUS
      [] body = "EARTH"   -> R_EARTH
      [] body = "MARS"    -> R_MARS
      [] body = "JUPITER" -> R_JUPITER
      [] body = "SATURN"  -> R_SATURN
      [] body = "URANUS"  -> R_URANUS
      [] body = "NEPTUNE" -> R_NEPTUNE
      [] body = "PLUTO"   -> R_PLUTO
      [] OTHER            -> R_EARTH

(***************************************************************************)
(* propagator.h: MissionState                                              *)
(***************************************************************************)
Zero3 == <<0, 0, 0>>

\* MissionState(): m(0), t(0), r = v = 0.
DefaultState == [r |-> Zero3, v |-> Zero3, m |-> 0, t |-> 0]

\* MissionState(x, y, z, vx, vy, vz, mass, time).
MissionState(x, y, z, vx, vy, vz, mass, time) ==
    [r |-> <<x, y, z>>, v |-> <<vx, vy, vz>>, m |-> mass, t |-> time]

(***************************************************************************)
(* dynamics.cpp                                                            *)
(***************************************************************************)
\* thrust_mN * 1e-6 as a fixed-point force.
ThrustForce(thrust_mN) == Rnd(thrust_mN, 1000000 \div Scale)

\* a = -mu * r / |r|^3; the zero vector when |r| < 1e-10.  The quotient is
\* taken as ((mu / |r|) * r_i / |r|) / |r| to stay within 32 bits.
computeGravityAccel(r, mu) ==
    LET r_mag == Mag(r)
        q     == IF r_mag <= 0 THEN 0 ELSE Div(mu, r_mag)
        comp(i) == -Div(Rnd(q * r[i], r_mag), r_mag)
    IN  IF r_mag <= 0 THEN Zero3 ELSE <<comp(1), comp(2), comp(3)>>

\* a = thrust_direction * (thrust_mN * 1e-6 / m) * v / |v|; the zero vector
\* when thrust_mN < 1e-10, m < 1e-10 or |v| < 1e-10.
computeThrustAccel(v, m, thrust_mN, thrust_direction) ==
    LET v_mag  == Mag(v)
        a_mag  == Div(ThrustForce(thrust_mN), m)
        factor == Div(thrust_direction * a_mag, v_mag)
    IN  IF thrust_mN <= 0 \/ m <= 0 THEN Zero3
        ELSE IF v_mag <= 0 THEN Zero3
        ELSE <<Mul(factor, v[1]), Mul(factor, v[2]), Mul(factor, v[3])>>

computeAcceleration(state, thrust_mN, mu, thrust_direction) ==
    LET a_grav   == computeGravityAccel(state.r, mu)
        a_thrust == computeThrustAccel(state.v, state.m, thrust_mN,
                                       thrust_direction)
    IN  <<a_grav[1] + a_thrust[1], a_grav[2] + a_thrust[2],
          a_grav[3] + a_thrust[3]>>

(***************************************************************************)
(* propagator.cpp                                                          *)
(***************************************************************************)
Add3(u, w) == <<u[1] + w[1], u[2] + w[2], u[3] + w[3]>>

\* u * c for a fixed-point scalar c.
Scale3(u, c) == <<Mul(u[1], c), Mul(u[2], c), Mul(u[3], c)>>

\* Mutant of MassAfterStep: the clamp at 0 is missing.
MassAfterStepNoClamp(m, dt, thrust_mN, isp_s, g0) ==
    IF thrust_mN > 0 /\ isp_s > 0
    THEN m + Mul(-Div(ThrustForce(thrust_mN), isp_s * g0), dt)
    ELSE m

\* Mutant of MassAfterStep: the Isp guard is missing, so with isp_s = 0 the
\* flow rate is -thrust / 0 = -inf and the mass ends clamped at 0.
MassAfterStepNoIspGuard(m, dt, thrust_mN, isp_s, g0) ==
    IF thrust_mN > 0
    THEN IF isp_s > 0
         THEN LET m1 == m + Mul(-Div(ThrustForce(thrust_mN), isp_s * g0), dt)
              IN  IF m1 < 0 THEN 0 ELSE m1
         ELSE 0
    ELSE m

\* The mass update shared by both integrators: dm/dt = -thrust_mN * 1e-6 /
\* (isp_s * g0) when thrust_mN > 1e-10 and isp_s > 1e-10, clamped at 0.
MassAfterStep(m, dt, thrust_mN, isp_s, g0) ==
    IF thrust_mN > 0 /\ isp_s > 0
    THEN LET v_e   == isp_s * g0
             dm_dt == -Div(ThrustForce(thrust_mN), v_e)
             m1    == m + Mul(dm_dt, dt)
         IN  IF m1 < 0 THEN 0 ELSE m1
    ELSE m

\* Mutant of TimeAfterStep: the clock advances by a fixed unit, not by dt.
TimeAfterStepFixedUnit(t, dt) == t + Fix(1)

\* state.t = state.t + dt.
TimeAfterStep(t, dt) == t + dt

\* RK4Propagator::step.
RK4Step(state, dt, thrust_mN, isp_s, mu, g0, thrust_direction) ==
    LET half  == Rnd(dt, 2)
        k1    == computeAcceleration(state, thrust_mN, mu, thrust_direction)
        v_k1  == state.v
        r_mid == Add3(state.r, Scale3(state.v, half))
        v_mid == Add3(state.v, Scale3(k1, half))
        state_mid == [r |-> r_mid, v |-> v_mid, m |-> state.m, t |-> 0]
        k2    == computeAcceleration(state_mid, thrust_mN, mu, thrust_direction)
        v_k2  == v_mid
        v_mid2 == Add3(state.v, Scale3(k2, half))
        state_mid2 == [state_mid EXCEPT !.v = v_mid2]
        k3    == computeAcceleration(state_mid2, thrust_mN, mu, thrust_direction)
        v_k3  == v_mid2
        r_end == Add3(Add3(state.r, Scale3(state.v, dt)),
                      Scale3(k3, Rnd(Mul(dt, dt), 2)))
        v_end == Add3(state.v, Scale3(k3, dt))
        state_end == [r |-> r_end, v |-> v_end, m |-> state.m, t |-> 0]
        k4    == computeAcceleration(state_end, thrust_mN, mu, thrust_direction)
        v_k4  == v_end
        \* (dt / 6.0) * (s1 + 2*s2 + 2*s3 + s4), divided last to keep digits.
        comb(s1, s2, s3, s4, i) ==
            Rnd(Mul(dt, s1[i] + 2 * s2[i] + 2 * s3[i] + s4[i]), 6)
        v_new == <<state.v[1] + comb(k1, k2, k3, k4, 1),
                   state.v[2] + comb(k1, k2, k3, k4, 2),
                   state.v[3] + comb(k1, k2, k3, k4, 3)>>
        r_new == <<state.r[1] + comb(v_k1, v_k2, v_k3, v_k4, 1),
                   state.r[2] + comb(v_k1, v_k2, v_k3, v_k4, 2),
                   state.r[3] + comb(v_k1, v_k2, v_k3, v_k4, 3)>>
    IN  [r |-> r_new, v |-> v_new,
         m |-> MassAfterStep(state.m, dt, thrust_mN, isp_s, g0),
         t |-> TimeAfterStep(state.t, dt)]

\* Mutant of EulerStep: textbook forward Euler, the position advanced with
\* the velocity of the beginning of the step.
ForwardEulerStep(state, dt, thrust_mN, isp_s, mu, g0, thrust_direction) ==
    LET a == computeAcceleration(state, thrust_mN, mu, thrust_direction)
    IN  [r |-> Add3(state.r, Scale3(state.v, dt)),
         v |-> Add3(state.v, Scale3(a, dt)),
         m |-> MassAfterStep(state.m, dt, thrust_mN, isp_s, g0),
         t |-> TimeAfterStep(state.t, dt)]

\* EulerPropagator::step: the assignments in program order; the position
\* update reads state.v after the velocity update has written it.
EulerStep(state, dt, thrust_mN, isp_s, mu, g0, thrust_direction) ==
    LET a  == computeAcceleration(state, thrust_mN, mu, thrust_direction)
        s1 == [state EXCEPT !.v = Add3(state.v, Scale3(a, dt))]
        s2 == [s1 EXCEPT !.r = Add3(s1.r, Scale3(s1.v, dt))]
        s3 == [s2 EXCEPT !.t = TimeAfterStep(s2.t, dt)]
    IN  [s3 EXCEPT !.m = MassAfterStep(s3.m, dt, thrust_mN, isp_s, g0)]

(***************************************************************************)
(* orbital_elements.cpp: computeOrbitalElements.  Only the elements the    *)
(* controller and the batch runner read are modelled (h, E, a, e, r_p,     *)
(* r_a); the angles i, Omega, omega and nu are not.                        *)
(***************************************************************************)
PARABOLIC_A == 962567

Cross(r, v) ==
    <<Mul(r[2], v[3]) - Mul(r[3], v[2]),
      Mul(r[3], v[1]) - Mul(r[1], v[3]),
      Mul(r[1], v[2]) - Mul(r[2], v[1])>>

\* Mutant of Eccentricity: the hyperbolic sentinel is -1.
EccentricityNegativeSentinel(h_mag, a, mu) ==
    IF a > 0
    THEN LET e_sq == Fix(1) - Div(Mul(h_mag, h_mag), Mul(mu, a))
         IN  Sqrt(IF e_sq < 0 THEN 0 ELSE e_sq)
    ELSE -Fix(1)

\* The eccentricity: sqrt(max(0, 1 - h^2 / (mu * a))) when a > 0, else 2.0.
Eccentricity(h_mag, a, mu) ==
    IF a > 0
    THEN LET e_sq == Fix(1) - Div(Mul(h_mag, h_mag), Mul(mu, a))
         IN  Sqrt(IF e_sq < 0 THEN 0 ELSE e_sq)
    ELSE Fix(2)

\* a = -mu / (2 E) when |E| > 1e-15, else the parabolic sentinel 1e10.
SemiMajorAxis(E, mu) == IF E # 0 THEN Div(-mu, 2 * E) ELSE PARABOLIC_A

computeOrbitalElements(r, v, mu) ==
    LET h_vec    == Cross(r, v)
        h_mag    == Mag(h_vec)
        r_mag    == Mag(r)
        v_mag_sq == Rnd(v[1] * v[1] + v[2] * v[2] + v[3] * v[3], Scale)
        E        == Rnd(v_mag_sq, 2) - Div(mu, r_mag)
        a        == SemiMajorAxis(E, mu)
        e        == Eccentricity(h_mag, a, mu)
    IN  [h |-> h_mag, E |-> E, a |-> a, e |-> e,
         r_p |-> Mul(a, Fix(1) - e), r_a |-> Mul(a, Fix(1) + e)]

(***************************************************************************)
(* The Kepler solver: solveKeplersEquation (orbital_elements.cpp).  Angles *)
(* are radians in units of 1/Scale.                                        *)
(***************************************************************************)
\* 2 * 3.14159265358979323846.
TWO_PI == 6283

PI == Rnd(TWO_PI, 2)

HALF_PI == Rnd(TWO_PI, 4)

\* std::fmod: the remainder of the truncated division, with the sign of x.
Fmod(x, y) == Sign(x) * (Abs(x) % Abs(y))

\* The Taylor polynomial of the sine, for |z| <= pi/2.
SinSeries(z) ==
    LET z2 == Mul(z, z)
        t3 == Rnd(Mul(z, z2), 6)
        t5 == Rnd(Mul(t3, z2), 20)
        t7 == Rnd(Mul(t5, z2), 42)
        t9 == Rnd(Mul(t7, z2), 72)
    IN  z - t3 + t5 - t7 + t9

\* std::sin.
Sin(x) ==
    LET y == x % TWO_PI
        z == IF y > PI THEN y - TWO_PI ELSE y
    IN  IF z > HALF_PI THEN SinSeries(PI - z)
        ELSE IF z < -HALF_PI THEN SinSeries(-PI - z)
        ELSE SinSeries(z)

\* std::cos.
Cos(x) == Sin(x + HALF_PI)

\* Mutant of NormalizeMeanAnomaly: a negative remainder is not shifted.
FmodMeanAnomaly(M) == Fmod(M, TWO_PI)

\* Lines 11-12: M_norm = fmod(M, 2 pi), plus 2 pi when that is negative.
NormalizeMeanAnomaly(M) ==
    LET M_norm == Fmod(M, TWO_PI)
    IN  IF M_norm < 0 THEN M_norm + TWO_PI ELSE M_norm

\* Lines 26-31: f(E) = E - e sin E - M_norm and f'(E) = 1 - e cos E.
KeplerF(E, e, M_norm) == E - Mul(e, Sin(E)) - M_norm

KeplerFPrime(E, e) == Fix(1) - Mul(e, Cos(E))

(***************************************************************************)
(* The anomaly conversion: eccentricToTrueAnomaly (orbital_elements.cpp).  *)
(* A double that may be huge, infinite or NaN is kept as a ratio n / d:    *)
(* d = 0 with n # 0 is +-inf (or a magnitude beyond the grid), n = d = 0   *)
(* is NaN.                                                                 *)
(***************************************************************************)
\* Mutant of HalfAngle: the angle is not halved.
WholeAngle(E) == E

\* Line 72: half_E = E / 2.0.
HalfAngle(E) == Rnd(E, 2)

\* std::tan.
Tan(x) == [n |-> Sin(x), d |-> Cos(x)]

\* Line 76: sqrt((1 + e) / (1 - e)); the quotient is +inf at e = 1.
AnomalyFactor(e) == [n |-> Sqrt(Fix(1) + e), d |-> Sqrt(Fix(1) - e)]

\* Line 79: the product of two doubles; inf * 0 is NaN.
MulRatio(p, q) == [n |-> Mul(p.n, q.n), d |-> Mul(p.d, q.d)]

IsNaN(p) == p.n = 0 /\ p.d = 0

\* The angle in [lo, hi] whose tangent is n / d (d > 0), by bisection on
\* the sign of sin(x) * d - cos(x) * n.
RECURSIVE AtanBetween(_, _, _, _)
AtanBetween(n, d, lo, hi) ==
    IF hi - lo <= 1
    THEN IF Abs(Sin(lo) * d - Cos(lo) * n) <= Abs(Sin(hi) * d - Cos(hi) * n)
         THEN lo ELSE hi
    ELSE LET mid == (lo + hi) \div 2
         IN  IF Sin(mid) * d - Cos(mid) * n < 0
             THEN AtanBetween(n, d, mid, hi)
             ELSE AtanBetween(n, d, lo, mid)

\* std::atan, in [-pi/2, pi/2].
Atan(p) ==
    LET n == IF p.d < 0 THEN -p.n ELSE p.n
        d == Abs(p.d)
    IN  IF d = 0 THEN (IF n > 0 THEN HALF_PI ELSE -HALF_PI)
        ELSE AtanBetween(n, d, -HALF_PI, HALF_PI)

\* A double: a number, +-inf, or NaN.
Number(x) == [nan |-> FALSE, inf |-> FALSE, val |-> x]

NaN == [nan |-> TRUE, inf |-> FALSE, val |-> 0]

Infinite == [nan |-> FALSE, inf |-> TRUE, val |-> 0]

IsFinite(x) == ~x.nan /\ ~x.inf

\* eccentricToTrueAnomaly, lines 57-90.
eccentricToTrueAnomaly(E, e) ==
    IF e < 0 \/ e > Fix(1) THEN Number(0)
    ELSE IF e <= 0 THEN Number(E)
    ELSE LET tan_half_E  == Tan(HalfAngle(E))
             factor      == AnomalyFactor(e)
             tan_half_nu == MulRatio(factor, tan_half_E)
         IN  IF IsNaN(tan_half_nu) THEN NaN
             ELSE LET nu == 2 * Atan(tan_half_nu)
                  IN  Number(IF nu < 0 THEN nu + TWO_PI ELSE nu)

(***************************************************************************)
(* The comparison engine: MissionComparison (comparison.cpp).              *)
(***************************************************************************)
\* a / b for two finite doubles.
Quotient(a, b) ==
    IF b # 0 THEN Number(Div(a, b))
    ELSE IF a = 0 THEN NaN ELSE Infinite

\* a / q for a finite double a and a double q.
QuotientBy(a, q) ==
    IF q.nan THEN NaN
    ELSE IF q.inf THEN Number(0)
    ELSE Quotient(a, q.val)

\* c * q for a finite positive double c and a double q.
Times(c, q) == IF IsFinite(q) THEN Number(Mul(c, q.val)) ELSE q

\* ln 2.
LN2 == 693

\* The natural logarithm of v > 0: halve or double v into [1, 2), then
\* 2 atanh((v - 1) / (v + 1)) by its series.
RECURSIVE Ln(_)
Ln(v) ==
    IF v >= Fix(2) THEN LN2 + Ln(Rnd(v, 2))
    ELSE IF v < Fix(1) THEN Ln(2 * v) - LN2
    ELSE LET z  == Div(v - Fix(1), v + Fix(1))
             z2 == Mul(z, z)
             z3 == Mul(z, z2)
             z5 == Mul(z3, z2)
             z7 == Mul(z5, z2)
         IN  2 * (z + Rnd(z3, 3) + Rnd(z5, 5) + Rnd(z7, 7))

\* std::log.
Log(q) ==
    IF q.nan THEN NaN
    ELSE IF q.inf THEN Infinite
    ELSE IF q.val > 0 THEN Number(Ln(q.val))
    ELSE IF q.val = 0 THEN Infinite
    ELSE NaN

\* MissionResult::MissionResult(): every number 0.
DefaultMissionResult ==
    [mission_name |-> "", departure_body |-> "", arrival_body |-> "",
     flight_time_days |-> 0, total_delta_v_km_s |-> 0,
     propellant_consumed_kg |-> 0, final_mass_kg |-> 0,
     initial_mass_kg |-> 0, final_apoapsis_km |-> Number(0),
     payload_fraction |-> Number(0),
     specific_impulse_achieved |-> Number(0),
     fuel_efficiency |-> Number(0), transfer_efficiency |-> Number(0)]

\* Lines 31: double G0 = 9.80665e-3.
MetricsG0 == 10

\* Lines 44-51: the target apoapsis of the arrival body, 0 if it is not
\* Mars, Venus or Jupiter (the literals agree with the catalog radii to four
\* digits).
TargetApoapsis(arrival_body) ==
    CASE arrival_body = "Mars" -> R_MARS
      [] arrival_body = "Venus" -> R_VENUS
      [] arrival_body = "Jupiter" -> R_JUPITER
      [] OTHER -> 0

\* Line 19: final_mass_kg / initial_mass_kg.
PayloadFraction(mission) ==
    Quotient(mission.final_mass_kg, mission.initial_mass_kg)

\* Lines 22-26.
FuelEfficiency(mission) ==
    IF mission.propellant_consumed_kg > 0
    THEN Quotient(mission.total_delta_v_km_s, mission.propellant_consumed_kg)
    ELSE Number(0)

\* Lines 31-38.
SpecificImpulseAchieved(mission) ==
    IF mission.initial_mass_kg > mission.final_mass_kg
    THEN LET mass_ratio ==
                 Quotient(mission.initial_mass_kg, mission.final_mass_kg)
         IN  QuotientBy(mission.total_delta_v_km_s,
                        Times(MetricsG0, Log(mass_ratio)))
    ELSE Number(0)

\* Lines 53-57; the apoapsis is itself a double computed by
\* computeOrbitalElements.
TransferEfficiency(mission) ==
    LET target_apoapsis == TargetApoapsis(mission.arrival_body)
    IN  IF target_apoapsis > 0
        THEN IF IsFinite(mission.final_apoapsis_km)
             THEN Number(Mul(Div(mission.final_apoapsis_km.val,
                                 target_apoapsis), Fix(100)))
             ELSE mission.final_apoapsis_km
        ELSE Number(0)

\* The body of the loop of computeMetrics, for one mission.
MetricsOf(mission) ==
    [mission EXCEPT
        !.payload_fraction = PayloadFraction(mission),
        !.fuel_efficiency = FuelEfficiency(mission),
        !.specific_impulse_achieved = SpecificImpulseAchieved(mission),
        !.transfer_efficiency = TransferEfficiency(mission)]

\* MissionComparison::computeMetrics, lines 16-59.
computeMetrics(missions) ==
    [i \in 1..Len(missions) |-> MetricsOf(missions[i])]

\* The divisors computeMetrics divides by for one mission.
Divisors(mission) ==
    {mission.initial_mass_kg}
    \cup (IF mission.propellant_consumed_kg > 0
          THEN {mission.propellant_consumed_kg} ELSE {})
    \cup (IF mission.initial_mass_kg > mission.final_mass_kg
          THEN {mission.final_mass_kg} ELSE {})
    \cup (IF TargetApoapsis(mission.arrival_body) > 0
          THEN {TargetApoapsis(mission.arrival_body)} ELSE {})

(***************************************************************************)
(* The propagation controller: propagateMission (mission_propagation.cpp). *)
(***************************************************************************)
VARIABLES
    config,          \* the MissionConfig and the call's other arguments
    pc,              \* START, LOOP (at the loop condition), THRUSTING (past
                     \* this iteration's checks), or how the loop ended
    state,           \* MissionState state
    step,            \* int step
    total_delta_v,   \* double total_delta_v
    coast_step,      \* int coast_step
    result,          \* PropagationResult result
    outfile,         \* std::ofstream outfile: "closed", "open" or "failed"
    rows,            \* lines written to the trajectory file
    kepler,          \* the frame of a call of solveKeplersEquation
    call,            \* the frame of a call of one of the other functions
    batch            \* the frame of MissionBatchRunner::runBatchMissions

vars == <<config, pc, state, step, total_delta_v, coast_step, result,
          outfile, rows, kepler, call, batch>>

\* The model's horizon: no run is followed beyond this many integrator steps.
MaxSteps == 12

\* The settings and call arguments the runs are drawn from.
DepartureBodies == {"EARTH", "MARS"}
ArrivalBodies == {"VENUS", "MARS", "JUPITER"}
InitialMasses == {Fix(-50), Fix(90), Fix(110)}
Thrusts == {0, 2000000, 10000000}
Isps == {0, 2, 100}
Timesteps == {Fix(-1), 0, Fix(1), Fix(2)}
MaxFlightTimes == {0, Fix(8)}
CoastThresholds == {999}
Integrators == {"rk4", "euler"}
\* Names config.integrator can also hold: the loader copies any text.
OtherIntegratorNames == {"RK4", ""}
Filenames == {"", "trajectory.csv"}

\* The callers pass either (true, a file name) or the defaults (false, "").
Configs ==
    {c \in [departure_body : DepartureBodies, arrival_body : ArrivalBodies,
            initial_mass_kg : InitialMasses, thrust_mN : Thrusts,
            isp_s : Isps, integrator : Integrators \cup OtherIntegratorNames,
            timestep_s : Timesteps,
            max_flight_time_s : MaxFlightTimes,
            coast_threshold : CoastThresholds,
            save_trajectory : BOOLEAN, output_filename : Filenames] :
        c.save_trajectory = (c.output_filename # "")}

r_departure == getOrbitalRadius(config.departure_body)
r_arrival == getOrbitalRadius(config.arrival_body)

\* Mutant of EmptyResult: coast_step initialised to 0 instead of -1.
EmptyResultCoastZero ==
    [final_state |-> DefaultState, total_delta_v |-> 0, coast_step |-> 0,
     trajectory_history |-> <<>>]

\* PropagationResult(): total_delta_v(0), coast_step(-1), final_state and
\* trajectory_history default-constructed.
EmptyResult ==
    [final_state |-> DefaultState, total_delta_v |-> 0, coast_step |-> -1,
     trajectory_history |-> <<>>]

\* The initial orbital state: circular at r_departure, v_circ = sqrt(mu / r).
InitialState(cfg) ==
    LET r_dep  == getOrbitalRadius(cfg.departure_body)
        v_circ == Sqrt(Div(MU_SUN, r_dep))
    IN  MissionState(r_dep, 0, 0, 0, v_circ, 0, cfg.initial_mass_kg, 0)

\* Mutant of IntegratorKind: the name is compared without regard to case.
IntegratorKindAnyCase(name) ==
    IF name \in {"rk4", "RK4"} THEN "RK4" ELSE "EULER"

\* config.integrator == "rk4" selects RK4, anything else Euler.
IntegratorKind(name) == IF name = "rk4" THEN "RK4" ELSE "EULER"

\* Mutant of IntegratorStep: the Euler step leaves the mass alone.
IntegratorStepEulerKeepsMass(cfg, s) ==
    IF IntegratorKind(cfg.integrator) = "RK4"
    THEN RK4Step(s, cfg.timestep_s, cfg.thrust_mN, cfg.isp_s, MU_SUN, G0, 1)
    ELSE [EulerStep(s, cfg.timestep_s, cfg.thrust_mN, cfg.isp_s, MU_SUN, G0, 1)
             EXCEPT !.m = s.m]

\* integrator->step(state, timestep_s, thrust_mN, isp_s, MU_SUN, G0).
IntegratorStep(cfg, s) ==
    IF IntegratorKind(cfg.integrator) = "RK4"
    THEN RK4Step(s, cfg.timestep_s, cfg.thrust_mN, cfg.isp_s, MU_SUN, G0, 1)
    ELSE EulerStep(s, cfg.timestep_s, cfg.thrust_mN, cfg.isp_s, MU_SUN, G0, 1)

\* Mutant of LoopCondition: the loop has no time ceiling.
LoopConditionNoCeiling(cfg, s) == s.t < cfg.max_flight_time_s \/ s.t >= 0

\* while (state.t < config.max_flight_time_s).
LoopCondition(cfg, s) == s.t < cfg.max_flight_time_s

\* Mutant of CoastCondition: the threshold is taken from the departure radius.
CoastConditionDeparture(cfg, s) ==
    computeOrbitalElements(s.r, s.v, MU_SUN).r_a
        >= Mul(cfg.coast_threshold, getOrbitalRadius(cfg.departure_body))

\* Mutant of CoastCondition: the magnitude of the apoapsis is compared.
CoastConditionMagnitude(cfg, s) ==
    Abs(computeOrbitalElements(s.r, s.v, MU_SUN).r_a)
        >= Mul(cfg.coast_threshold, getOrbitalRadius(cfg.arrival_body))

\* elements.r_a >= config.coast_threshold * r_arrival.
CoastCondition(cfg, s) ==
    computeOrbitalElements(s.r, s.v, MU_SUN).r_a
        >= Mul(cfg.coast_threshold, getOrbitalRadius(cfg.arrival_body))

\* Mutant of FuelCheck: the floor is 0 kg instead of 100 kg.
FuelCheckEmpty(s) == s.m < 0

\* state.m < 100.
FuelCheck(s) == s.m < Fix(100)

\* Mutant of Outcome: the fuel test comes first.
OutcomeFuelFirst(cfg, s) ==
    IF FuelCheck(s) THEN "FUEL_DEPLETED"
    ELSE IF CoastCondition(cfg, s) THEN "COASTING"
    ELSE "THRUSTING"

\* Mutant of Outcome: the coast test is left out.
OutcomeNoCoast(cfg, s) ==
    IF FuelCheck(s) THEN "FUEL_DEPLETED" ELSE "THRUSTING"

\* What one loop iteration decides, in the order of the tests in the body.
Outcome(cfg, s) ==
    IF CoastCondition(cfg, s) THEN "COASTING"
    ELSE IF FuelCheck(s) THEN "FUEL_DEPLETED"
    ELSE "THRUSTING"

\* total_delta_v after the iteration's increment.
DeltaVAfter(cfg, s, dv) ==
    IF cfg.thrust_mN > 0
    THEN dv + Mul(Div(ThrustForce(cfg.thrust_mN), s.m), cfg.timestep_s)
    ELSE dv

\* Whether the call asks for a trajectory file.
WantsFile(cfg) == cfg.save_trajectory /\ cfg.output_filename # ""

\* No call of solveKeplersEquation is in progress: propagateMission makes
\* none.
NoKeplerCall ==
    [pc |-> "IDLE", M |-> 0, e |-> 0, tolerance |-> 0, max_iterations |-> 0,
     E |-> 0, iter |-> 0, broke |-> FALSE, ret |-> 0]

\* No other function is being called.
NoCall == [fn |-> "none", pc |-> "IDLE"]

\* No batch is running.
NoBatch == [pc |-> "IDLE", config_files |-> <<>>, next |-> 1, missions |-> <<>>]

Init ==
    /\ config \in Configs
    /\ kepler = NoKeplerCall
    /\ call = NoCall
    /\ batch = NoBatch
    /\ pc = "START"
    /\ state = InitialState(config)
    /\ step = 0
    /\ total_delta_v = 0
    /\ coast_step = -1
    /\ result = EmptyResult
    /\ outfile = "closed"
    /\ rows = 0

\* Lines 31-37: open the output file if requested and write the header; the
\* open may fail, and nothing tests whether it did.
OpenOutput ==
    /\ pc = "START"
    /\ pc' = "LOOP"
    /\ IF WantsFile(config)
       THEN \E ok \in BOOLEAN :
              /\ outfile' = (IF ok THEN "open" ELSE "failed")
              /\ rows' = (IF ok THEN 1 ELSE 0)
       ELSE UNCHANGED <<outfile, rows>>
    /\ UNCHANGED <<config, state, step, total_delta_v, coast_step, result,
                   kepler, call, batch>>

\* An iteration is counted once: with a zero timestep the run is followed
\* beyond MaxSteps, where step stays at MaxSteps and the iteration that
\* repeats there has already been recorded.
Counted == Len(result.trajectory_history) > step

\* Mutant of Recorded: the state is not pushed.
RecordedNothing == result

\* Line 49: result.trajectory_history.push_back(state).
Recorded ==
    IF Counted THEN result
    ELSE [result EXCEPT !.trajectory_history = Append(@, state)]

\* Lines 52-70: one row per iteration if the file is open.
RowsAfterRecord == IF outfile = "open" /\ ~Counted THEN rows + 1 ELSE rows

\* Lines 108-110: close the file if it is open.
FileAfterReturn == IF outfile = "open" THEN "closed" ELSE outfile

\* Line 44: the loop condition is false; the loop ends without setting
\* result.
TimeExceeded ==
    /\ pc = "LOOP"
    /\ ~LoopCondition(config, state)
    /\ pc' = "TIME_EXCEEDED"
    /\ outfile' = FileAfterReturn
    /\ UNCHANGED <<config, state, step, total_delta_v, coast_step, result, rows,
                   kepler, call, batch>>

\* Lines 46-83: record the state; the coast condition holds; finalize and
\* break.
CoastReached ==
    /\ pc = "LOOP"
    /\ LoopCondition(config, state)
    /\ Outcome(config, state) = "COASTING"
    /\ coast_step' = step
    /\ result' = [Recorded EXCEPT !.final_state = state,
                                  !.total_delta_v = total_delta_v,
                                  !.coast_step = step]
    /\ rows' = RowsAfterRecord
    /\ outfile' = FileAfterReturn
    /\ pc' = "COASTING"
    /\ UNCHANGED <<config, state, step, total_delta_v, kepler, call, batch>>

\* Lines 46-91: record the state; mass below the floor; finalize and break.
FuelDepleted ==
    /\ pc = "LOOP"
    /\ LoopCondition(config, state)
    /\ Outcome(config, state) = "FUEL_DEPLETED"
    /\ result' = [Recorded EXCEPT !.final_state = state,
                                  !.total_delta_v = total_delta_v,
                                  !.coast_step = coast_step]
    /\ rows' = RowsAfterRecord
    /\ outfile' = FileAfterReturn
    /\ pc' = "FUEL_DEPLETED"
    /\ UNCHANGED <<config, state, step, total_delta_v, coast_step, kepler, call, batch>>

\* Lines 46-91: record the state; neither exit applies.
KeepThrusting ==
    /\ pc = "LOOP"
    /\ LoopCondition(config, state)
    /\ Outcome(config, state) = "THRUSTING"
    /\ result' = Recorded
    /\ rows' = RowsAfterRecord
    /\ pc' = "THRUSTING"
    /\ UNCHANGED <<config, state, step, total_delta_v, coast_step, outfile,
                   kepler, call, batch>>

\* Lines 93-105: accumulate delta-V, take one integrator step, step++.  A
\* run is followed up to MaxSteps steps; with a zero timestep the step
\* changes nothing, and the run is followed on without counting.
ThrustStep ==
    /\ pc = "THRUSTING"
    /\ step < MaxSteps \/ config.timestep_s = 0
    /\ total_delta_v' = DeltaVAfter(config, state, total_delta_v)
    /\ state' = IntegratorStep(config, state)
    /\ step' = IF step < MaxSteps THEN step + 1 ELSE step
    /\ pc' = "LOOP"
    /\ UNCHANGED <<config, coast_step, result, outfile, rows, kepler, call, batch>>

Next ==
    \/ OpenOutput
    \/ TimeExceeded
    \/ CoastReached
    \/ FuelDepleted
    \/ KeepThrusting
    \/ ThrustStep

Spec == Init /\ [][Next]_vars

Terminal == {"COASTING", "FUEL_DEPLETED", "TIME_EXCEEDED"}

Last(seq) == seq[Len(seq)]

\* The states in which Next is enabled.
CanProceed ==
    \/ pc \in {"START", "LOOP"}
    \/ pc = "THRUSTING" /\ (step < MaxSteps \/ config.timestep_s = 0)

\* What every step of Next does to the program counter.
Proceed == CanProceed /\ pc' \in {"LOOP", "THRUSTING"} \cup Terminal /\ pc' # pc

\* The scheduling of a sequential program: while it has a step to take, it
\* takes one.  Every step of Next changes pc, so this is weak fairness of
\* Next, stated on the variable that shows progress.
\* The runs whose clock does not go backwards: a run with a negative
\* timestep is cut at MaxSteps and says nothing about termination.
FairInit == Init /\ config.timestep_s >= 0

FairSpec == FairInit /\ [][Next]_vars /\ WF_pc(Proceed)

\* A run reaches MaxSteps only when its clock does not advance: with a
\* positive timestep every run ends before.
HorizonOnlyWithoutProgress == step >= MaxSteps => config.timestep_s <= 0

(***************************************************************************)
(* A call of solveKeplersEquation(M, e, tolerance, max_iterations).        *)
(***************************************************************************)
MeanAnomalies ==
    {i * 785 : i \in (0 - 17)..17} \cup {-TWO_PI, -1, 1, 1500, TWO_PI}

Eccentricities == {-200, 0, 300, 900, Fix(1)}

Tolerances == {0, 1, 100}

MaxIterations == {-1, 0, 2, 6}

\* The propagation controller is not running.
NoConfig ==
    [departure_body |-> "EARTH", arrival_body |-> "MARS",
     initial_mass_kg |-> 0, thrust_mN |-> 0, isp_s |-> 0,
     integrator |-> "rk4", timestep_s |-> 0,
     max_flight_time_s |-> 0, coast_threshold |-> 0,
     save_trajectory |-> FALSE, output_filename |-> ""]

NoMission ==
    /\ config = NoConfig
    /\ pc = "IDLE"
    /\ state = DefaultState
    /\ step = 0
    /\ total_delta_v = 0
    /\ coast_step = -1
    /\ result = EmptyResult
    /\ outfile = "closed"
    /\ rows = 0

missionVars == <<config, pc, state, step, total_delta_v, coast_step, result,
                 outfile, rows>>

\* Mutant of LoopContinues: the budget is tested with <=.
LoopContinuesOffByOne(iter, max_iterations) == iter <= max_iterations

\* Line 24: iter < max_iterations.
LoopContinues(iter, max_iterations) == iter < max_iterations

KeplerInit ==
    /\ NoMission
    /\ call = NoCall
    /\ batch = NoBatch
    /\ \E M \in MeanAnomalies, e \in Eccentricities, tol \in Tolerances,
          n \in MaxIterations :
          kepler = [NoKeplerCall EXCEPT !.pc = "CALL", !.M = M, !.e = e,
                                        !.tolerance = tol,
                                        !.max_iterations = n]

\* Lines 11-21: normalize M, take it as the first guess, and return it at
\* once when e < 1e-10.
KeplerEnter ==
    /\ kepler.pc = "CALL"
    /\ LET M_norm == NormalizeMeanAnomaly(kepler.M)
       IN  kepler' = IF kepler.e <= 0
                     THEN [kepler EXCEPT !.pc = "RETURNED", !.E = M_norm,
                                         !.ret = M_norm]
                     ELSE [kepler EXCEPT !.pc = "LOOP", !.E = M_norm]
    /\ UNCHANGED <<missionVars, call, batch>>

\* Lines 24-47: one Newton-Raphson iteration.
NewtonIterate ==
    /\ kepler.pc = "LOOP"
    /\ ~kepler.broke
    /\ LoopContinues(kepler.iter, kepler.max_iterations)
    /\ LET M_norm  == NormalizeMeanAnomaly(kepler.M)
           f       == KeplerF(kepler.E, kepler.e, M_norm)
           f_prime == KeplerFPrime(kepler.E, kepler.e)
       IN  IF f_prime = 0
           THEN kepler' = [kepler EXCEPT !.broke = TRUE]
           ELSE LET E_next == kepler.E - Div(f, f_prime)
                IN  IF Abs(E_next - kepler.E) < kepler.tolerance
                    THEN kepler' = [kepler EXCEPT !.pc = "RETURNED",
                                                  !.ret = E_next]
                    ELSE kepler' = [kepler EXCEPT !.E = E_next,
                                                  !.iter = @ + 1]
    /\ UNCHANGED <<missionVars, call, batch>>

\* Line 50: the loop ended by break or by exhausting the iterations.
KeplerReturnBest ==
    /\ kepler.pc = "LOOP"
    /\ kepler.broke \/ ~LoopContinues(kepler.iter, kepler.max_iterations)
    /\ kepler' = [kepler EXCEPT !.pc = "RETURNED", !.ret = kepler.E]
    /\ UNCHANGED <<missionVars, call, batch>>

KeplerNext == KeplerEnter \/ NewtonIterate \/ KeplerReturnBest

KeplerSpec == KeplerInit /\ [][KeplerNext]_vars

\* What every step of KeplerNext does: a call that has not returned moves
\* on.  KeplerNext is enabled in every state where the call has not
\* returned, and so is this action (its first disjunct names one frame the
\* call could move to).
KeplerProceed ==
    /\ kepler.pc \in {"CALL", "LOOP"}
    /\ \/ kepler' = [kepler EXCEPT !.pc = "RETURNED"]
       \/ kepler'.pc \in {"LOOP", "RETURNED"}

\* The scheduling of a sequential program: weak fairness of KeplerNext.
KeplerFairSpec == KeplerSpec /\ WF_kepler(KeplerProceed)

(***************************************************************************)
(* The batch runner: MissionBatchRunner (mission_batch.cpp).  One batch    *)
(* per behaviour; a mission of the batch is a call of propagateMission,    *)
(* taken by the actions of Next.                                           *)
(***************************************************************************)
\* The longest list of config files a batch is given.
MaxBatch == 3

\* The files of the config directory.
ConfigFiles == {"coast.yaml", "fuel.yaml", "thrust.yaml", "time.yaml"}

\* loadConfigFromYAML(config_path): the settings each file holds.
ConfigOfFile(config_file) ==
    LET base == [departure_body |-> "EARTH", arrival_body |-> "MARS",
                 initial_mass_kg |-> Fix(110), thrust_mN |-> 2000000,
                 isp_s |-> 100, integrator |-> "rk4", timestep_s |-> Fix(1),
                 max_flight_time_s |-> Fix(8), coast_threshold |-> 999,
                 save_trajectory |-> FALSE, output_filename |-> ""]
    IN  CASE config_file = "coast.yaml" ->
               [base EXCEPT !.arrival_body = "VENUS"]
          [] config_file = "fuel.yaml" ->
               [base EXCEPT !.initial_mass_kg = Fix(90)]
          [] config_file = "thrust.yaml" ->
               [base EXCEPT !.arrival_body = "JUPITER", !.isp_s = 2,
                            !.integrator = "euler"]
          [] config_file = "time.yaml" ->
               [base EXCEPT !.max_flight_time_s = 0]

\* results_dir + "/" + base_name + "_trajectory.csv".
TrajectoryFile(mission_name) ==
    CASE mission_name = "coast.yaml" -> "../results/coast_trajectory.csv"
      [] mission_name = "fuel.yaml" -> "../results/fuel_trajectory.csv"
      [] mission_name = "thrust.yaml" -> "../results/thrust_trajectory.csv"
      [] mission_name = "time.yaml" -> "../results/time_trajectory.csv"

\* The arguments of ::propagateMission(config, r_dep, r_arr, true, file).
BatchConfig(config_file) ==
    [ConfigOfFile(config_file) EXCEPT
        !.save_trajectory = TRUE,
        !.output_filename = TrajectoryFile(config_file)]

\* getBodyName(body).
getBodyName(body) ==
    CASE body = "MERCURY" -> "Mercury"
      [] body = "VENUS" -> "Venus"
      [] body = "EARTH" -> "Earth"
      [] body = "MARS" -> "Mars"
      [] body = "JUPITER" -> "Jupiter"
      [] body = "SATURN" -> "Saturn"
      [] body = "URANUS" -> "Uranus"
      [] body = "NEPTUNE" -> "Neptune"
      [] body = "PLUTO" -> "Pluto"
      [] OTHER -> "Unknown"

\* 86400.0 seconds per day.
SECONDS_PER_DAY == Fix(86400)

\* elements.r_a of computeOrbitalElements(final_state.r, final_state.v,
\* MU_SUN).  At r = 0 the energy is -inf, a = -mu / -inf = 0, e = 2.0 and
\* r_a = 0 * 3 = 0.
FinalApoapsis(final_state) ==
    IF Mag(final_state.r) = 0 THEN Number(0)
    ELSE Number(computeOrbitalElements(final_state.r, final_state.v,
                                       MU_SUN).r_a)

\* MissionBatchRunner::propagateMission: the MissionResult made of the
\* settings and of the PropagationResult.
MissionResultOf(mission_name, cfg, prop_result) ==
    [DefaultMissionResult EXCEPT
        !.mission_name = mission_name,
        !.departure_body = getBodyName(cfg.departure_body),
        !.arrival_body = getBodyName(cfg.arrival_body),
        !.initial_mass_kg = cfg.initial_mass_kg,
        !.flight_time_days = Div(prop_result.final_state.t, SECONDS_PER_DAY),
        !.total_delta_v_km_s = prop_result.total_delta_v,
        !.final_mass_kg = prop_result.final_state.m,
        !.propellant_consumed_kg =
            cfg.initial_mass_kg - prop_result.final_state.m,
        !.final_apoapsis_km = FinalApoapsis(prop_result.final_state)]

\* Mutant of addMission: the result is put in front.
addMissionInFront(missions, mission) == <<mission>> \o missions

\* MissionComparison::addMission: missions.push_back(result).
addMission(missions, mission) == Append(missions, mission)

RECURSIVE ListsUpTo(_)
ListsUpTo(n) ==
    IF n = 0 THEN {<<>>}
    ELSE LET shorter == ListsUpTo(n - 1)
         IN  shorter \cup {Append(l, f) : l \in shorter, f \in ConfigFiles}

\* The lists of config files a batch is given.
BatchLists == ListsUpTo(MaxBatch)

\* runBatchMissions(config_files) is entered: MissionComparison comparison.
BatchInit ==
    /\ NoMission
    /\ kepler = NoKeplerCall
    /\ call = NoCall
    /\ \E files \in BatchLists :
         batch = [pc |-> "RUNNING", config_files |-> files, next |-> 1,
                  missions |-> <<>>]

\* Lines 178-180, 121-151 and mission_propagation.cpp 16-29: the next file
\* of the list is loaded and ::propagateMission is entered with its own new
\* state, counters and result.
BatchStartMission ==
    /\ batch.pc = "RUNNING"
    /\ pc = "IDLE"
    /\ batch.next <= Len(batch.config_files)
    /\ config' = BatchConfig(batch.config_files[batch.next])
    /\ state' = InitialState(config')
    /\ step' = 0
    /\ total_delta_v' = 0
    /\ coast_step' = -1
    /\ result' = EmptyResult
    /\ outfile' = "closed"
    /\ rows' = 0
    /\ pc' = "START"
    /\ UNCHANGED <<kepler, call, batch>>

\* Lines 153-167 and 181: ::propagateMission has returned; the MissionResult
\* is filled in and added to the comparison, and the loop moves to the next
\* file.  The locals of the call are gone.
BatchCollect ==
    /\ batch.pc = "RUNNING"
    /\ pc \in Terminal
    /\ batch' = [batch EXCEPT
                   !.missions =
                       addMission(@, MissionResultOf(
                           batch.config_files[batch.next], config, result)),
                   !.next = @ + 1]
    /\ config' = NoConfig
    /\ pc' = "IDLE"
    /\ state' = DefaultState
    /\ step' = 0
    /\ total_delta_v' = 0
    /\ coast_step' = -1
    /\ result' = EmptyResult
    /\ outfile' = "closed"
    /\ rows' = 0
    /\ UNCHANGED <<kepler, call>>

\* Lines 184-185: the list is exhausted; computeMetrics, return.
BatchFinish ==
    /\ batch.pc = "RUNNING"
    /\ pc = "IDLE"
    /\ batch.next > Len(batch.config_files)
    /\ batch' = [batch EXCEPT !.missions = computeMetrics(@), !.pc = "DONE"]
    /\ UNCHANGED <<missionVars, kepler, call>>

BatchNext ==
    \/ BatchStartMission
    \/ OpenOutput
    \/ TimeExceeded
    \/ CoastReached
    \/ FuelDepleted
    \/ KeepThrusting
    \/ ThrustStep
    \/ BatchCollect
    \/ BatchFinish

BatchSpec == BatchInit /\ [][BatchNext]_vars

(***************************************************************************)
(* Body names (constants.h).  A std::string is the sequence of its         *)
(* characters.                                                             *)
(***************************************************************************)
LowerLetters ==
    <<"a", "b", "c", "d", "e", "f", "g", "h", "i", "j", "k", "l", "m", "n",
      "o", "p", "q", "r", "s", "t", "u", "v", "w", "x", "y", "z">>

UpperLetters ==
    <<"A", "B", "C", "D", "E", "F", "G", "H", "I", "J", "K", "L", "M", "N",
      "O", "P", "Q", "R", "S", "T", "U", "V", "W", "X", "Y", "Z">>

\* One character in the other case; a character that is no letter is
\* itself.
ToLower(c) ==
    IF \E i \in 1..26 : UpperLetters[i] = c
    THEN LowerLetters[CHOOSE i \in 1..26 : UpperLetters[i] = c]
    ELSE c

ToUpper(c) ==
    IF \E i \in 1..26 : LowerLetters[i] = c
    THEN UpperLetters[CHOOSE i \in 1..26 : LowerLetters[i] = c]
    ELSE c

LowerCase(name) == [i \in 1..Len(name) |-> ToLower(name[i])]

\* The characters of getBodyName(body).
CatalogName(body) ==
    CASE body = "MERCURY" -> <<"M", "e", "r", "c", "u", "r", "y">>
      [] body = "VENUS" -> <<"V", "e", "n", "u", "s">>
      [] body = "EARTH" -> <<"E", "a", "r", "t", "h">>
      [] body = "MARS" -> <<"M", "a", "r", "s">>
      [] body = "JUPITER" -> <<"J", "u", "p", "i", "t", "e", "r">>
      [] body = "SATURN" -> <<"S", "a", "t", "u", "r", "n">>
      [] body = "URANUS" -> <<"U", "r", "a", "n", "u", "s">>
      [] body = "NEPTUNE" -> <<"N", "e", "p", "t", "u", "n", "e">>
      [] body = "PLUTO" -> <<"P", "l", "u", "t", "o">>

\* parseBodyName(name): each body is recognised by two spellings.
parseBodyName(name) ==
    IF name = <<"M", "e", "r", "c", "u", "r", "y">>
       \/ name = <<"m", "e", "r", "c", "u", "r", "y">>
    THEN "MERCURY"
    ELSE IF name = <<"V", "e", "n", "u", "s">>
       \/ name = <<"v", "e", "n", "u", "s">>
    THEN "VENUS"
    ELSE IF name = <<"E", "a", "r", "t", "h">>
       \/ name = <<"e", "a", "r", "t", "h">>
    THEN "EARTH"
    ELSE IF name = <<"M", "a", "r", "s">>
       \/ name = <<"m", "a", "r", "s">>
    THEN "MARS"
    ELSE IF name = <<"J", "u", "p", "i", "t", "e", "r">>
       \/ name = <<"j", "u", "p", "i", "t", "e", "r">>
    THEN "JUPITER"
    ELSE IF name = <<"S", "a", "t", "u", "r", "n">>
       \/ name = <<"s", "a", "t", "u", "r", "n">>
    THEN "SATURN"
    ELSE IF name = <<"U", "r", "a", "n", "u", "s">>
       \/ name = <<"u", "r", "a", "n", "u", "s">>
    THEN "URANUS"
    ELSE IF name = <<"N", "e", "p", "t", "u", "n", "e">>
       \/ name = <<"n", "e", "p", "t", "u", "n", "e">>
    THEN "NEPTUNE"
    ELSE IF name = <<"P", "l", "u", "t", "o">>
       \/ name = <<"p", "l", "u", "t", "o">>
    THEN "PLUTO"
    ELSE "EARTH"

(***************************************************************************)
(* The configuration loader: loadConfigFromYAML (mission_batch.cpp).  A    *)
(* document either fails to parse or gives each field a node: absent, a    *)
(* number, a text, a scalar that is no number, or a nested collection.     *)
(* Durations are held in units of 1000 s.                                  *)
(***************************************************************************)
Absent == [kind |-> "absent"]
Word == [kind |-> "word"]
Collection == [kind |-> "collection"]
NumberNode(x) == [kind |-> "number", val |-> x]
TextNode(text) == [kind |-> "text", val |-> text]

\* MissionConfig with SpacecraftConfig, as default-constructed.
DefaultMissionConfig ==
    [departure_body |-> "EARTH", arrival_body |-> "MARS",
     name |-> "Default Spacecraft", thrust_mN |-> Fix(1000),
     isp_s |-> Fix(2750), initial_mass_kg |-> Fix(10000),
     integrator |-> "rk4", timestep_s |-> Fix(10),
     max_flight_time_s |-> Fix(788400), coast_threshold |-> 999,
     output_filename |-> "results/trajectory.csv"]

\* The fields in the order the loader reads them.
FieldOrder ==
    <<"initial_mass_kg", "departure_body", "arrival_body", "name", "method",
      "timestep_s", "max_flight_time_s", "coast_threshold", "filename">>

\* The fields read with as<double>(); the others are read with
\* as<std::string>().
DoubleFields ==
    {"initial_mass_kg", "timestep_s", "max_flight_time_s", "coast_threshold"}

\* Whether node.as<T>() returns; otherwise it throws a YAML::Exception.
Converts(field, node) ==
    IF field \in DoubleFields THEN node.kind = "number"
    ELSE node.kind # "collection"

\* Lines 67-79: the thrusters known by name.
ThrusterTable(cfg, name) ==
    CASE name = "Low-Power Hall" ->
           [cfg EXCEPT !.thrust_mN = Fix(60), !.isp_s = Fix(1500)]
      [] name = "High-Power Hall" ->
           [cfg EXCEPT !.thrust_mN = Fix(1000), !.isp_s = Fix(2750)]
      [] name = "Low-Power Ion" ->
           [cfg EXCEPT !.thrust_mN = Fix(250), !.isp_s = Fix(4000)]
      [] name = "High-Power Ion" ->
           [cfg EXCEPT !.thrust_mN = Fix(450), !.isp_s = Fix(9000)]
      [] OTHER -> cfg

\* The text of a scalar node.
TextOf(node) == node.val

\* The assignment one field's node leads to.
Assign(cfg, field, node) ==
    CASE field = "initial_mass_kg" -> [cfg EXCEPT !.initial_mass_kg = node.val]
      [] field = "departure_body" ->
           [cfg EXCEPT !.departure_body = parseBodyName(TextOf(node))]
      [] field = "arrival_body" ->
           [cfg EXCEPT !.arrival_body = parseBodyName(TextOf(node))]
      [] field = "name" ->
           ThrusterTable([cfg EXCEPT !.name = TextOf(node)], TextOf(node))
      [] field = "method" -> [cfg EXCEPT !.integrator = TextOf(node)]
      [] field = "timestep_s" -> [cfg EXCEPT !.timestep_s = node.val]
      [] field = "max_flight_time_s" ->
           [cfg EXCEPT !.max_flight_time_s = node.val]
      [] field = "coast_threshold" -> [cfg EXCEPT !.coast_threshold = node.val]
      [] field = "filename" -> [cfg EXCEPT !.output_filename = TextOf(node)]

\* Lines 46-108: the fields are read one after another into config; the
\* first conversion that throws ends the try block, and the catch block
\* only reports.
RECURSIVE LoadFields(_, _, _)
LoadFields(fields, cfg, i) ==
    IF i > Len(FieldOrder) THEN [config |-> cfg, error |-> FALSE]
    ELSE LET field == FieldOrder[i]
         IN  IF fields[field] = Absent
             THEN LoadFields(fields, cfg, i + 1)
             ELSE IF ~Converts(field, fields[field])
             THEN [config |-> cfg, error |-> TRUE]
             ELSE LoadFields(fields, Assign(cfg, field, fields[field]), i + 1)

\* loadConfigFromYAML(filename): the returned MissionConfig, and whether an
\* error was written to std::cerr.  YAML::LoadFile throws on a file that
\* does not parse.
loadConfigFromYAML(doc) ==
    IF ~doc.parses THEN [config |-> DefaultMissionConfig, error |-> TRUE]
    ELSE LoadFields(doc.fields, DefaultMissionConfig, 1)

(***************************************************************************)
(* Calls of the other functions, one call per behaviour.                   *)
(***************************************************************************)
EccentricAnomalies ==
    {i * 393 : i \in (0 - 16)..32} \cup {PI, TWO_PI, -PI, 7000, -1000, 1500}

ConversionEccentricities == {-200, 0, 1, 300, 500, 900, 999, Fix(1), 1500}

AnomalyCalls ==
    [fn : {"eccentricToTrueAnomaly"}, pc : {"CALL"}, E : EccentricAnomalies,
     e : ConversionEccentricities]

\* MissionResults as MissionBatchRunner::propagateMission fills them in, and
\* others.
MetricsMissions ==
    {[DefaultMissionResult EXCEPT
         !.arrival_body = body, !.initial_mass_kg = m0, !.final_mass_kg = mf,
         !.propellant_consumed_kg = m0 - mf, !.total_delta_v_km_s = dv,
         !.final_apoapsis_km = Number(apo)] :
       body \in {"Mars", "Venus", "Jupiter", "Earth"},
       m0 \in {0, Fix(110)}, mf \in {Fix(-50), 0, Fix(55), Fix(110)},
       dv \in {0, 500}, apo \in {0, R_MARS}}

MetricsCalls == [fn : {"computeMetrics"}, pc : {"CALL"},
                 missions : {<<mission>> : mission \in MetricsMissions}]

\* Every letter-casing of a name.
Casings(name) ==
    {[i \in 1..Len(name) |-> IF i \in upper THEN ToUpper(name[i])
                                              ELSE ToLower(name[i])] :
       upper \in SUBSET (1..Len(name))}

\* The nine names in every casing, and names of no body.
NameInputs ==
    UNION {Casings(CatalogName(body)) : body \in Bodies}
      \cup {<<>>, <<"c", "e", "r", "e", "s">>, <<"m", "a", "r">>,
            <<"m", "a", "r", "s", "s">>, <<"M", "a", "r", "s", " ">>}

NameCalls == [fn : {"parseBodyName"}, pc : {"CALL"}, name : NameInputs]

\* Documents: one that does not parse, and those that parse with each
\* field absent, well-formed or not convertible.
Documents ==
    {[parses |-> FALSE, fields |-> [f \in DOMAIN DefaultMissionConfig \cup
                                          {"method", "filename"} |-> Absent]]}
      \cup
    {[parses |-> TRUE,
      fields |-> [initial_mass_kg |-> mass, departure_body |-> dep,
                  arrival_body |-> arr, name |-> name, method |-> method,
                  timestep_s |-> dt, max_flight_time_s |-> tmax,
                  coast_threshold |-> coast, filename |-> file]] :
       mass \in {Absent, NumberNode(Fix(500)), Word},
       dep \in {Absent, TextNode(<<"M", "a", "r", "s">>)},
       arr \in {Absent, TextNode(<<"j", "u", "p", "i", "t", "e", "r">>), Collection},
       name \in {Absent, TextNode("High-Power Ion"), TextNode("Other")},
       method \in {Absent, TextNode("euler")},
       dt \in {Absent, NumberNode(Fix(1)), Word},
       tmax \in {Absent, NumberNode(Fix(8))},
       coast \in {Absent, NumberNode(950), Collection},
       file \in {Absent, TextNode("out.csv")}}

LoadCalls == [fn : {"loadConfigFromYAML"}, pc : {"CALL"}, doc : Documents]

\* A zero-thrust run on the circular orbit of a body.
ZeroThrustConfig(integrator, body, dt) ==
    [NoConfig EXCEPT !.integrator = integrator, !.departure_body = body,
                     !.timestep_s = dt]

\* The analytic circular solution after the duration: the initial position
\* turned by the angle v_circ * duration / r.
AnalyticPosition(body, duration) ==
    LET r0     == getOrbitalRadius(body)
        v_circ == Sqrt(Div(MU_SUN, r0))
        angle  == Div(Mul(v_circ, duration), r0)
    IN  <<Mul(r0, Cos(angle)), Mul(r0, Sin(angle)), 0>>

\* The distance of a run's final position from the analytic one.
PositionError(final, body, duration) ==
    LET exact == AnalyticPosition(body, duration)
    IN  Mag(<<final.r[1] - exact[1], final.r[2] - exact[2],
              final.r[3] - exact[3]>>)

\* Convergence studies: the same duration run with a timestep and with half
\* of it, on the orbit whose radius, speed and acceleration are exact in
\* fixed point.
ConvergenceCalls ==
    [fn : {"convergence"}, pc : {"CALL"}, integrator : Integrators,
     body : {"VENUS"}, dt : {Fix(4), Fix(2)}, duration : {Fix(8), Fix(16)}]

PureInit ==
    /\ NoMission
    /\ kepler = NoKeplerCall
    /\ batch = NoBatch
    /\ call \in AnomalyCalls \cup MetricsCalls \cup NameCalls \cup LoadCalls
                 \cup ConvergenceCalls

EccentricToTrueAnomalyCall ==
    /\ call.fn = "eccentricToTrueAnomaly"
    /\ call.pc = "CALL"
    /\ call' = [fn |-> call.fn, pc |-> "RETURNED", E |-> call.E, e |-> call.e,
                ret |-> eccentricToTrueAnomaly(call.E, call.e)]
    /\ UNCHANGED <<missionVars, kepler, batch>>

ComputeMetricsCall ==
    /\ call.fn = "computeMetrics"
    /\ call.pc = "CALL"
    /\ call' = [fn |-> call.fn, pc |-> "RETURNED", missions |-> call.missions,
                ret |-> computeMetrics(call.missions)]
    /\ UNCHANGED <<missionVars, kepler, batch>>

ParseBodyNameCall ==
    /\ call.fn = "parseBodyName"
    /\ call.pc = "CALL"
    /\ call' = [fn |-> call.fn, pc |-> "RETURNED", name |-> call.name,
                ret |-> parseBodyName(call.name)]
    /\ UNCHANGED <<missionVars, kepler, batch>>

LoadConfigFromYAMLCall ==
    /\ call.fn = "loadConfigFromYAML"
    /\ call.pc = "CALL"
    /\ LET outcome == loadConfigFromYAML(call.doc)
       IN  call' = [fn |-> call.fn, pc |-> "RETURNED", doc |-> call.doc,
                    ret |-> outcome.config, cerr |-> outcome.error]
    /\ UNCHANGED <<missionVars, kepler, batch>>

\* The runs of a study and their timesteps: dt and dt / 2.
Runs == {"coarse", "fine"}

RunConfig(study, run) ==
    ZeroThrustConfig(study.integrator, study.body,
                     IF run = "coarse" THEN study.dt ELSE Rnd(study.dt, 2))

\* The two runs of a study start on the circular orbit.
ConvergenceStart ==
    /\ call.fn = "convergence"
    /\ call.pc = "CALL"
    /\ call' = [fn |-> call.fn, pc |-> "RUNNING",
                integrator |-> call.integrator, body |-> call.body,
                dt |-> call.dt, duration |-> call.duration,
                runs |-> [run \in Runs |->
                            InitialState(RunConfig(call, run))]]
    /\ UNCHANGED <<missionVars, kepler, batch>>

\* One integrator step of a run that has not reached the duration.
StepUntil(cfg, s, duration) ==
    IF s.t < duration THEN IntegratorStep(cfg, s) ELSE s

\* Each run that has not reached the duration takes one step with its
\* timestep.
ConvergenceStep ==
    /\ call.fn = "convergence"
    /\ call.pc = "RUNNING"
    /\ \E run \in Runs : call.runs[run].t < call.duration
    /\ call' = [call EXCEPT
                   !.runs = [run \in Runs |->
                               StepUntil(RunConfig(call, run), call.runs[run],
                                         call.duration)]]
    /\ UNCHANGED <<missionVars, kepler, batch>>

\* Both runs have reached the duration: their position errors.
ConvergenceReturn ==
    /\ call.fn = "convergence"
    /\ call.pc = "RUNNING"
    /\ \A run \in Runs : call.runs[run].t >= call.duration
    /\ call' = [fn |-> call.fn, pc |-> "RETURNED",
                integrator |-> call.integrator, body |-> call.body,
                dt |-> call.dt, duration |-> call.duration,
                coarse_error |-> PositionError(call.runs["coarse"], call.body,
                                               call.duration),
                fine_error |-> PositionError(call.runs["fine"], call.body,
                                             call.duration)]
    /\ UNCHANGED <<missionVars, kepler, batch>>

PureNext ==
    \/ ConvergenceStart
    \/ ConvergenceStep
    \/ ConvergenceReturn
    \/ EccentricToTrueAnomalyCall
    \/ ComputeMetricsCall
    \/ ParseBodyNameCall
    \/ LoadConfigFromYAMLCall

PureSpec == PureInit /\ [][PureNext]_vars

(***************************************************************************)
(* Claims                                                                  *)
(***************************************************************************)

\* C1: whenever the run ended COASTING (result.coast_step >= 0), the orbital
\* elements of the returned final state have apoapsis >= coast_threshold *
\* r_arrival.
C1_CoastApoapsis ==
    result.coast_step >= 0 =>
        computeOrbitalElements(result.final_state.r, result.final_state.v,
                               MU_SUN).r_a
            >= Mul(config.coast_threshold, r_arrival)

\* A run that reached the coast condition after thrusting for some steps.
C1_Witness == pc = "COASTING" /\ result.coast_step >= 3 /\ config.isp_s > 0

\* C2 as stated: with an initial mass below 100 kg every finished run ended
\* FUEL_DEPLETED with coast_step -1 and a final mass below 100 kg.
C2_Original ==
    (config.initial_mass_kg < Fix(100) /\ pc \in Terminal) =>
        /\ pc = "FUEL_DEPLETED"
        /\ result.coast_step = -1
        /\ result.final_state.m < Fix(100)

\* C2 amended: with an initial mass below 100 kg, a positive flight-time
\* ceiling and a departure orbit that does not already meet the coast
\* condition, the run takes no integrator step and can only end
\* FUEL_DEPLETED, with coast_step -1 and the initial mass as final mass.
C2_FuelDepletedAtStart ==
    (/\ config.initial_mass_kg < Fix(100)
     /\ config.max_flight_time_s > 0
     /\ ~CoastCondition(config, InitialState(config))) =>
        /\ step = 0
        /\ pc \in {"START", "LOOP", "FUEL_DEPLETED"}
        /\ pc = "FUEL_DEPLETED" =>
              /\ result.coast_step = -1
              /\ result.final_state.m = config.initial_mass_kg
              /\ result.final_state.m < Fix(100)

C2_Witness ==
    /\ pc = "FUEL_DEPLETED"
    /\ config.initial_mass_kg < Fix(100)
    /\ result.final_state.m = config.initial_mass_kg

\* C3: every propagation run terminates (the loop exits through COASTING,
\* FUEL_DEPLETED, the elapsed-time ceiling or an iteration ceiling).
C3_Terminates == <>(pc \in Terminal)

C5_Original == [][state'.t >= state.t]_vars

\* C5 amended: every integrator step sets the elapsed time to t + dt,
\* whatever thrust, Isp and mass are; so the elapsed time never decreases
\* across steps taken with dt >= 0.
C5_TimeAdvancesByDt ==
    [][(pc = "THRUSTING" /\ pc' = "LOOP") =>
          /\ state'.t = state.t + config.timestep_s
          /\ config.timestep_s >= 0 => state'.t >= state.t]_vars

C5_Witness ==
    /\ step >= 2
    /\ config.timestep_s > 0
    /\ config.thrust_mN > 0
    /\ state.t = step * config.timestep_s

\* What a caller can tell from a PropagationResult alone.
Classify(res) ==
    IF res.coast_step >= 0 THEN "COASTING"
    ELSE IF /\ res.trajectory_history # <<>>
            /\ res.final_state = Last(res.trajectory_history)
         THEN "FUEL_DEPLETED"
         ELSE "TIME_EXCEEDED"

\* C6: a run that ended through the time-exceeded fallthrough is
\* distinguishable, from the returned result alone, from one that ended
\* COASTING and from one that ended FUEL_DEPLETED: the result determines how
\* the run ended.
C6_Distinguishable == pc \in Terminal => Classify(result) = pc

\* A time-exceeded run that recorded states, next to which FUEL_DEPLETED
\* results with the same coast_step exist.
C6_Witness ==
    /\ pc = "TIME_EXCEEDED"
    /\ step >= 2
    /\ result.coast_step = -1
    /\ result.trajectory_history # <<>>

\* C7: if the trajectory file cannot be opened the operation is aborted: no
\* integrator step is taken and no outcome is computed.
C7_OpenFailureAborts ==
    outfile = "failed" =>
        /\ step = 0
        /\ result = EmptyResult
        /\ pc \notin {"COASTING", "FUEL_DEPLETED"}

C9_CoastKeepsMass ==
    [][(/\ pc = "THRUSTING" /\ pc' = "LOOP"
        /\ (config.thrust_mN <= 0 \/ config.isp_s <= 0)) =>
          state'.m = state.m]_vars

\* Steps were taken with the thruster on and no Isp: position, velocity and
\* time changed, the mass did not.
C9_Witness ==
    /\ step >= 2
    /\ config.thrust_mN > 0
    /\ config.isp_s = 0
    /\ config.timestep_s # 0
    /\ state.m = config.initial_mass_kg
    /\ state.r # InitialState(config).r

\* C10 as stated: for e = 0 the solver returns exactly M, for every M.
C10_Original ==
    (kepler.pc = "RETURNED" /\ kepler.e = 0) => kepler.ret = kepler.M

\* C10 amended: for e = 0 the solver returns M reduced modulo 2 pi into
\* [0, 2 pi): a value congruent to M, equal to M exactly when M already lies
\* in [0, 2 pi), and returned without any Newton iteration.
C10_CircularReturnsNormalized ==
    (kepler.pc = "RETURNED" /\ kepler.e = 0) =>
        /\ 0 <= kepler.ret /\ kepler.ret < TWO_PI
        /\ (kepler.ret - kepler.M) % TWO_PI = 0
        /\ (kepler.ret = kepler.M) <=> (0 <= kepler.M /\ kepler.M < TWO_PI)
        /\ kepler.iter = 0

\* The solver returned for e = 0 and a negative M.
C10_Witness ==
    /\ kepler.pc = "RETURNED"
    /\ kepler.e = 0
    /\ kepler.M < 0
    /\ kepler.ret = kepler.M + TWO_PI

Returned(fn) == call.fn = fn /\ call.pc = "RETURNED"

\* C11 as stated: eccentricToTrueAnomaly maps E = 0 to 0 and E = pi to pi for
\* any eccentricity, and for e = 0 returns E unchanged.
C11_Original ==
    Returned("eccentricToTrueAnomaly") =>
        /\ call.E = 0 => call.ret = Number(0)
        /\ call.E = PI => call.ret = Number(PI)
        /\ call.e = 0 => call.ret = Number(call.E)

\* C11 amended: for 0 <= e < 1 eccentricToTrueAnomaly maps E = 0 to 0 and
\* E = pi to pi, and for e = 0 it returns E unchanged; for e < 0 or e > 1 it
\* returns 0 for every E (so E = pi maps to 0); for e = 1 exactly E = pi
\* maps to pi and E = 0 gives NaN.
C11_AnomalyFixedPoints ==
    Returned("eccentricToTrueAnomaly") =>
        /\ (0 <= call.e /\ call.e < Fix(1) /\ call.E = 0)
              => call.ret = Number(0)
        /\ (0 <= call.e /\ call.e <= Fix(1) /\ call.E = PI)
              => call.ret = Number(PI)
        /\ call.e = 0 => call.ret = Number(call.E)
        /\ (call.e < 0 \/ call.e > Fix(1)) => call.ret = Number(0)
        /\ (call.e = Fix(1) /\ call.E = 0) => call.ret = NaN

\* The conversion returned pi for E = pi on an elliptical orbit.
C11_Witness ==
    /\ Returned("eccentricToTrueAnomaly")
    /\ call.e = 500
    /\ call.E = PI
    /\ call.ret = Number(PI)

\* C12: every value returned by eccentricToTrueAnomaly lies in [0, 2 pi), for
\* every E and e, the e < 1e-10 branch included.
C12_TrueAnomalyInRange ==
    Returned("eccentricToTrueAnomaly") =>
        /\ ~call.ret.nan
        /\ 0 <= call.ret.val
        /\ call.ret.val < TWO_PI

\* The Newton iterations a call may take.
IterationBudget ==
    IF kepler.max_iterations > 0 THEN kepler.max_iterations ELSE 0

\* C13: solveKeplersEquation always returns a value, after at most
\* max_iterations Newton iterations (none for max_iterations <= 0): on
\* convergence, on f'(E) = 0, or when the budget is exhausted, in which case
\* it returns the current estimate.
C13_KeplerReturns ==
    /\ [](kepler.pc # "IDLE" => kepler.iter <= IterationBudget)
    /\ []((kepler.pc = "RETURNED" /\ kepler.e > 0
              /\ (kepler.broke \/ kepler.iter = IterationBudget))
             => kepler.ret = kepler.E)
    /\ <>(kepler.pc = "RETURNED")

\* A call that used its whole budget without converging and returned.
C13_Witness ==
    /\ kepler.pc = "RETURNED"
    /\ kepler.max_iterations = 6
    /\ kepler.iter = 6
    /\ kepler.tolerance > 0
    /\ ~kepler.broke

\* C14: computeMetrics never divides by zero, and each of the four derived
\* metrics is a defined value, 0 when its formula is undefined, for every
\* MissionResult.
C14_MetricsDefined ==
    Returned("computeMetrics") =>
        \A i \in 1..Len(call.ret) :
            /\ 0 \notin Divisors(call.missions[i])
            /\ IsFinite(call.ret[i].payload_fraction)
            /\ IsFinite(call.ret[i].specific_impulse_achieved)
            /\ IsFinite(call.ret[i].fuel_efficiency)
            /\ IsFinite(call.ret[i].transfer_efficiency)

\* What identifies a result: everything computeMetrics leaves alone.
Collected(mission) ==
    [f \in {"mission_name", "departure_body", "arrival_body",
            "flight_time_days", "total_delta_v_km_s",
            "propellant_consumed_kg", "final_mass_kg", "initial_mass_kg",
            "final_apoapsis_km"} |-> mission[f]]

\* C15: a batch over a list of N config files runs the missions one after
\* another in list order (the mission in progress is the one of the next
\* file, and one result per file before it has been collected, in order),
\* each mission starts from a new state (t = 0, mass = its own configured
\* initial mass, no steps, no delta-V, an empty result), the returned
\* comparison has exactly N results in list order, and results are only ever
\* appended.
C15_BatchInOrder ==
    /\ [](batch.pc \in {"RUNNING", "DONE"} =>
            /\ Len(batch.missions) = batch.next - 1
            /\ batch.next <= Len(batch.config_files) + 1
            /\ \A i \in 1..Len(batch.missions) :
                 /\ batch.missions[i].mission_name = batch.config_files[i]
                 /\ batch.missions[i].initial_mass_kg
                      = ConfigOfFile(batch.config_files[i]).initial_mass_kg
            /\ pc # "IDLE" =>
                 config = BatchConfig(batch.config_files[batch.next])
            /\ pc = "START" =>
                 /\ state.t = 0
                 /\ state.m = config.initial_mass_kg
                 /\ state = InitialState(config)
                 /\ step = 0 /\ total_delta_v = 0 /\ result = EmptyResult
            /\ batch.pc = "DONE" =>
                 Len(batch.missions) = Len(batch.config_files))
    /\ [][/\ Len(batch.missions') \in
                {Len(batch.missions), Len(batch.missions) + 1}
          /\ \A i \in 1..Len(batch.missions) :
               Collected(batch.missions'[i]) = Collected(batch.missions[i])
          /\ batch.config_files' = batch.config_files]_vars

\* A batch of three missions, the first two from different files, has
\* returned.
C15_Witness ==
    /\ batch.pc = "DONE"
    /\ Len(batch.missions) = 3
    /\ batch.missions[1].mission_name # batch.missions[2].mission_name
    /\ batch.missions[1].initial_mass_kg # batch.missions[2].initial_mass_kg

\* C16: parseBodyName returns the matching body for every letter-casing of
\* each of the nine body names, and EARTH for every other name.
C16_ParseCaseInsensitive ==
    Returned("parseBodyName") =>
        LET matching == {body \in Bodies :
                           LowerCase(call.name) = LowerCase(CatalogName(body))}
        IN  IF matching # {} THEN call.ret \in matching
            ELSE call.ret = "EARTH"

\* A document whose loading fails: it does not parse, or a field that is
\* present cannot be converted.
LoadFails(doc) ==
    \/ ~doc.parses
    \/ \E i \in 1..Len(FieldOrder) :
         /\ doc.fields[FieldOrder[i]] # Absent
         /\ ~Converts(FieldOrder[i], doc.fields[FieldOrder[i]])

\* C17: when loading a document fails, loadConfigFromYAML reports the error
\* and returns the all-default MissionConfig.
C17_FailureGivesDefaults ==
    Returned("loadConfigFromYAML") /\ LoadFails(call.doc) =>
        call.cerr /\ call.ret = DefaultMissionConfig

\* The observed order of a study lies within 1/2 of the nominal order p:
\* halving the timestep divides the error by a factor between 2^(p - 1/2)
\* and 2^(p + 1/2), that is, the squared errors by a factor between
\* 2^(2p - 1) and 2^(2p + 1).
ObservedOrderAbout(p, coarse, fine) ==
    /\ fine > 0
    /\ 2 ^ (2 * p - 1) * fine * fine <= coarse * coarse
    /\ coarse * coarse <= 2 ^ (2 * p + 1) * fine * fine

\* C18: for a zero-thrust circular orbit propagated for a fixed duration,
\* the position error against the analytic solution shrinks with observed
\* order about 4 for RK4 and about 1 for Euler when the timestep is halved.
C18_ConvergenceOrders ==
    Returned("convergence") =>
        IF IntegratorKind(call.integrator) = "RK4"
        THEN ObservedOrderAbout(4, call.coarse_error, call.fine_error)
        ELSE ObservedOrderAbout(1, call.coarse_error, call.fine_error)

\* C19: however propagateMission ends, the time-exceeded fallthrough
\* included, result.final_state is the controller's state at the end of the
\* loop and result.total_delta_v the accumulated delta-V, so that the flight
\* time, final mass and propellant the batch runner derives from the result
\* are those of the propagated state.
C19_ResultDescribesState ==
    pc \in Terminal =>
        LET derived == MissionResultOf("mission.yaml", config, result)
        IN  /\ result.final_state = state
            /\ result.total_delta_v = total_delta_v
            /\ derived.flight_time_days = Div(state.t, SECONDS_PER_DAY)
            /\ derived.final_mass_kg = state.m
            /\ derived.propellant_consumed_kg
                 = config.initial_mass_kg - state.m

\* C20: the coast test precedes the fuel test within an iteration: an
\* iteration in which both the coast condition and mass < 100 kg hold ends
\* the run COASTING with coast_step >= 0, and a run that ended FUEL_DEPLETED
\* did so in an iteration whose coast condition was false.
C20_CoastBeforeFuel ==
    /\ [](pc = "FUEL_DEPLETED" =>
            /\ ~CoastCondition(config, result.final_state)
            /\ FuelCheck(result.final_state)
            /\ result.coast_step < 0)
    /\ [][/\ pc = "LOOP"
          /\ LoopCondition(config, state)
          /\ CoastCondition(config, state)
          /\ FuelCheck(state)
          => /\ pc' = "COASTING"
             /\ result'.coast_step >= 0
             /\ result'.final_state = state]_vars

\* A run has ended COASTING in an iteration in which the mass was below
\* 100 kg as well.
C20_Witness ==
    /\ pc = "COASTING"
    /\ FuelCheck(result.final_state)
    /\ CoastCondition(config, result.final_state)
    /\ result.coast_step >= 0

\* C21 as stated: a run whose initial circular orbit already meets the coast
\* condition ends COASTING with coast_step 0, without an integrator step,
\* with flight time 0, delta-V 0 and propellant 0.
C21_Original ==
    (CoastCondition(config, InitialState(config)) /\ pc \in Terminal) =>
        /\ pc = "COASTING"
        /\ result.coast_step = 0
        /\ step = 0
        /\ result.final_state.t = 0
        /\ result.total_delta_v = 0
        /\ config.initial_mass_kg - result.final_state.m = 0

\* C21 amended: with a positive flight-time ceiling, a run whose initial
\* circular orbit already meets the coast condition takes no integrator
\* step and can only end COASTING, in its first iteration, with coast_step
\* 0, flight time 0, delta-V 0 and propellant 0; with a threshold of at most
\* 1 this is the case whenever the arrival radius is not larger than the
\* departure radius.
C21_CoastAtStart ==
    /\ (/\ getOrbitalRadius(config.arrival_body)
             <= getOrbitalRadius(config.departure_body)
        /\ config.coast_threshold <= Fix(1)
        /\ pc # "IDLE") =>
           CoastCondition(config, InitialState(config))
    /\ (/\ CoastCondition(config, InitialState(config))
        /\ config.max_flight_time_s > 0) =>
           /\ step = 0
           /\ pc \in {"START", "LOOP", "COASTING"}
           /\ pc = "COASTING" =>
                /\ result.coast_step = 0
                /\ result.final_state = InitialState(config)
                /\ result.final_state.t = 0
                /\ result.total_delta_v = 0
                /\ config.initial_mass_kg - result.final_state.m = 0
                /\ Len(result.trajectory_history) = 1

\* An Earth-to-Venus run has ended COASTING at step 0.
C21_Witness ==
    /\ pc = "COASTING"
    /\ config.departure_body = "EARTH"
    /\ config.arrival_body = "VENUS"
    /\ result.coast_step = 0
    /\ config.thrust_mN > 0

\* C22: every delta-V increment and every integrator step is taken from a
\* state with elapsed time below max_flight_time_s, apoapsis below
\* coast_threshold * r_arrival and mass >= 100 kg, so the mass the delta-V
\* increment divides by is positive.
C22_StepOnlyWhenThrusting ==
    [][(state' # state \/ total_delta_v' # total_delta_v \/ step' # step) =>
          /\ state.t < config.max_flight_time_s
          /\ computeOrbitalElements(state.r, state.v, MU_SUN).r_a
               < Mul(config.coast_threshold, r_arrival)
          /\ state.m >= Fix(100)
          /\ state.m > 0]_vars

\* A run has taken an integrator step with a delta-V increment.
C22_Witness == step >= 2 /\ total_delta_v > 0 /\ pc = "LOOP"

\* The delta-V increment of an iteration that starts with mass m.
Increment(cfg, m) ==
    IF cfg.thrust_mN > 0
    THEN Mul(Div(ThrustForce(cfg.thrust_mN), m), cfg.timestep_s)
    ELSE 0

\* The sum of the increments of the first n recorded iterations.
RECURSIVE SumIncrements(_, _, _)
SumIncrements(cfg, history, n) ==
    IF n = 0 THEN 0
    ELSE SumIncrements(cfg, history, n - 1) + Increment(cfg, history[n].m)

\* Every iteration that advances adds (thrust_mN * 1e-6 / mass) * timestep_s
\* to the accumulated delta-V, with the mass before the integrator step, and
\* advances the state by one integrator step.
IncrementPerStep ==
    [][step' = step + 1 =>
          /\ total_delta_v' = total_delta_v + Increment(config, state.m)
          /\ state' = IntegratorStep(config, state)]_vars

\* C23: the reported total delta-V of a finished run is the sum, over the
\* executed integrator steps, of (thrust_mN * 1e-6 / mass) * timestep_s taken
\* with the mass before each step, and it is 0 when thrust <= 1e-10.
C23_DeltaVIsSumOfIncrements ==
    pc \in Terminal =>
        /\ result.total_delta_v
             = SumIncrements(config, result.trajectory_history, step)
        /\ config.thrust_mN <= 0 => result.total_delta_v = 0

\* C24: every loop iteration pushes the current state onto the trajectory
\* history exactly once, before the coast and fuel tests: while the
\* iteration is in progress the history has step + 1 entries and ends with
\* the current state, and a run that ends COASTING or FUEL_DEPLETED has a
\* history of (number of integrator steps + 1) entries whose last entry is
\* the terminating state, equal to result.final_state.
C24_HistoryPerIteration ==
    /\ [][result'.trajectory_history # result.trajectory_history =>
            /\ pc = "LOOP"
            /\ result'.trajectory_history
                 = Append(result.trajectory_history, state)]_vars
    /\ []((pc = "LOOP" /\ step < MaxSteps) =>
            Len(result.trajectory_history) = step)
    /\ []((pc \in {"THRUSTING", "COASTING", "FUEL_DEPLETED"}) =>
            /\ Len(result.trajectory_history) = step + 1
            /\ Last(result.trajectory_history) = state)
    /\ []((pc \in {"COASTING", "FUEL_DEPLETED"}) =>
            Last(result.trajectory_history) = result.final_state)

C24_Witness ==
    /\ pc \in {"COASTING", "FUEL_DEPLETED"}
    /\ step >= 2
    /\ Len(result.trajectory_history) = step + 1

\* C25: at the start of every loop iteration state.t = step * timestep_s,
\* and a run that ends COASTING has coast_step equal to the number of
\* integrator steps executed, so that its reported flight time
\* (result.final_state.t) is coast_step * timestep_s.
C25_ElapsedTimeIsStepCount ==
    /\ pc = "LOOP" => state.t = step * config.timestep_s
    /\ pc = "COASTING" =>
          /\ result.coast_step = step
          /\ coast_step = step
          /\ result.final_state.t = result.coast_step * config.timestep_s

C25_Witness ==
    /\ pc = "COASTING"
    /\ result.coast_step >= 2
    /\ result.final_state.t = result.coast_step * config.timestep_s
    /\ result.final_state.t > 0

\* The mass after n steps, from the quantities the mass update reads: it
\* names neither the integrator nor the position or velocity.
RECURSIVE MassAt(_, _, _, _, _)
MassAt(m0, dt, thrust_mN, isp_s, n) ==
    IF n = 0 THEN m0
    ELSE MassAfterStep(MassAt(m0, dt, thrust_mN, isp_s, n - 1),
                       dt, thrust_mN, isp_s, G0)

\* The mass of the run's configuration after n steps.
MassOfRun(n) ==
    MassAt(config.initial_mass_kg, config.timestep_s, config.thrust_mN,
           config.isp_s, n)

\* C26: for the same thrust, Isp, g0, timestep and initial mass the RK4 and
\* the Euler integrator give the same mass and the same elapsed time after
\* every step: from any state one step of either gives the same m and t,
\* and after n steps m and t are functions of those quantities and n alone.
\* Hence a run ends FUEL_DEPLETED at the first step index whose mass is
\* below 100 kg, with that mass, whichever integrator it uses.
C26_MassAndTimeIgnoreIntegrator ==
    /\ pc \in {"LOOP", "THRUSTING"} =>
          LET rk4   == RK4Step(state, config.timestep_s, config.thrust_mN,
                               config.isp_s, MU_SUN, G0, 1)
              euler == EulerStep(state, config.timestep_s, config.thrust_mN,
                                 config.isp_s, MU_SUN, G0, 1)
          IN  rk4.m = euler.m /\ rk4.t = euler.t
    /\ state.m = MassOfRun(step)
    /\ state.t = step * config.timestep_s
    /\ pc = "FUEL_DEPLETED" =>
          /\ result.final_state.m = MassOfRun(step)
          /\ MassOfRun(step) < Fix(100)
          /\ \A n \in 0..(step - 1) : MassOfRun(n) >= Fix(100)

C26_Witness ==
    /\ pc = "FUEL_DEPLETED"
    /\ config.integrator = "euler"
    /\ step >= 1
    /\ result.final_state.m = MassOfRun(step)
    /\ result.final_state.m < config.initial_mass_kg

\* The runs C27 is about: thrust >= 0, Isp > 0 and timestep >= 0.
C27_Inputs ==
    config.thrust_mN >= 0 /\ config.isp_s > 0 /\ config.timestep_s >= 0

\* The reported propellant consumed: initial mass minus final mass.
PropellantConsumed == config.initial_mass_kg - result.final_state.m

\* C27 as stated: along any run with thrust >= 0, Isp > 0 and timestep >= 0
\* the mass never increases from one step to the next, and the propellant
\* consumed of a COASTING or FUEL_DEPLETED outcome lies in [0, initial mass].
C27_Original ==
    /\ [][C27_Inputs => state'.m <= state.m]_vars
    /\ []((C27_Inputs /\ pc \in {"COASTING", "FUEL_DEPLETED"}) =>
             /\ 0 <= PropellantConsumed
             /\ PropellantConsumed <= config.initial_mass_kg)

\* C27 amended: along any run with thrust >= 0, Isp > 0 and timestep >= 0
\* the mass never increases from one step to the next, so the propellant
\* consumed of a COASTING or FUEL_DEPLETED outcome is >= 0; with an initial
\* mass >= 0 it is also <= the initial mass, and with a negative initial
\* mass the run ends in its first iteration with propellant consumed 0.
C27_MassNeverIncreases ==
    /\ [][C27_Inputs => state'.m <= state.m]_vars
    /\ []((C27_Inputs /\ pc \in {"COASTING", "FUEL_DEPLETED"}) =>
             /\ 0 <= PropellantConsumed
             /\ config.initial_mass_kg >= 0 =>
                   PropellantConsumed <= config.initial_mass_kg
             /\ config.initial_mass_kg < 0 =>
                   step = 0 /\ PropellantConsumed = 0)

C27_Witness ==
    /\ C27_Inputs
    /\ pc \in {"COASTING", "FUEL_DEPLETED"}
    /\ step >= 2
    /\ PropellantConsumed > 0
    /\ PropellantConsumed <= config.initial_mass_kg

\* The orbital elements of the current state, as the controller computes
\* them at the top of an iteration.
Elements == computeOrbitalElements(state.r, state.v, MU_SUN)

\* C28: computeOrbitalElements never returns a negative eccentricity: with
\* a > 0, e is the square root of 1 - h^2 / (mu * a) clamped at 0 from
\* below; with a <= 0, e is exactly 2.0; and r_p = a * (1 - e),
\* r_a = a * (1 + e).
C28_EccentricityNonNegative ==
    LET el   == Elements
        e_sq == Fix(1) - Div(Mul(el.h, el.h), Mul(MU_SUN, el.a))
    IN  /\ el.e >= 0
        /\ el.a > 0 => el.e = (IF e_sq < 0 THEN 0 ELSE Sqrt(e_sq))
        /\ el.a <= 0 => el.e = Fix(2)
        /\ el.r_p = Mul(el.a, Fix(1) - el.e)
        /\ el.r_a = Mul(el.a, Fix(1) + el.e)

C28_Witness ==
    /\ Elements.a < 0
    /\ Elements.e = Fix(2)
    /\ Elements.r_p = -Elements.a
    /\ \E i \in 1..Len(result.trajectory_history) :
          LET s  == result.trajectory_history[i]
              el == computeOrbitalElements(s.r, s.v, MU_SUN)
          IN  el.a > 0 /\ el.e > 0 /\ el.e < Fix(1)

\* C29: a state with positive specific energy has a < 0 and e = 2.0, so its
\* reported apoapsis a * (1 + e) is negative and, coast_threshold *
\* r_arrival being positive, the coast condition is false in that
\* iteration: no run ends COASTING in a hyperbolic state, and from such a
\* state the run goes on thrusting, or ends FUEL_DEPLETED or time-exceeded.
C29_HyperbolicNeverCoasts ==
    /\ [](Elements.E > 0 =>
            /\ Elements.a < 0
            /\ Elements.e = Fix(2)
            /\ Elements.r_a = 3 * Elements.a
            /\ Elements.r_a < 0
            /\ Mul(config.coast_threshold, r_arrival) > 0 =>
                  /\ ~CoastCondition(config, state)
                  /\ pc # "COASTING")
    /\ [][(Elements.E > 0 /\ pc = "LOOP") =>
            pc' \in {"THRUSTING", "FUEL_DEPLETED", "TIME_EXCEEDED"}]_vars

C29_Witness ==
    /\ pc = "TIME_EXCEEDED"
    /\ Elements.E > 0
    /\ Elements.r_a < 0
    /\ \E i \in 1..Len(result.trajectory_history) :
          LET s == result.trajectory_history[i]
          IN  /\ computeOrbitalElements(s.r, s.v, MU_SUN).E > 0
              /\ Outcome(config, s) = "THRUSTING"

\* C30: the integrator selection is total and silent: exactly the name
\* "rk4" selects RK4 and every other name ("euler", "RK4", the empty
\* string) selects Euler; the run proceeds as with "euler", and every state
\* change is one step of the selected integrator.
C30_IntegratorSelectionTotal ==
    /\ [](/\ IntegratorKind(config.integrator) \in {"RK4", "EULER"}
          /\ IntegratorKind(config.integrator) = "RK4"
                <=> config.integrator = "rk4")
    /\ [][state' # state =>
            state' = (IF config.integrator = "rk4"
                      THEN RK4Step(state, config.timestep_s, config.thrust_mN,
                                   config.isp_s, MU_SUN, G0, 1)
                      ELSE EulerStep(state, config.timestep_s,
                                     config.thrust_mN, config.isp_s, MU_SUN,
                                     G0, 1))]_vars

C30_Witness ==
    /\ config.integrator \in OtherIntegratorNames
    /\ step = 1
    /\ pc = "LOOP"
    /\ state = EulerStep(InitialState(config), config.timestep_s,
                         config.thrust_mN, config.isp_s, MU_SUN, G0, 1)
    /\ state # RK4Step(InitialState(config), config.timestep_s,
                       config.thrust_mN, config.isp_s, MU_SUN, G0, 1)

====
